---- MODULE Spec2Model ----
(***************************************************************************)
(* Model of the measurement-and-aggregation pipeline of vllm_playground:   *)
(*   scripts/run_baseline.py     run_baseline_benchmark (the recorder)     *)
(*   scripts/analyze_results.py  load_results, analyze_results,            *)
(*                               print_summary_table, export_to_csv, main  *)
(*   scripts/generate_rag_prompts.py  generate_prompts                     *)
(*                                                                         *)
(* Numbers.  Python floats are modelled as exact rationals [num, den] with *)
(* den > 0 in lowest terms; wall-clock readings are integer ticks.         *)
(* Files.    A file is the sequence of its lines.  A line is a record      *)
(*   [kind |-> "object", val |-> f, null |-> S]  a JSON object: f maps the *)
(*                      keys with a non-null value to it, S holds the keys *)
(*                      whose value is JSON null                           *)
(*   [kind |-> "scalar"]                 valid JSON that is not an object  *)
(*   [kind |-> "text", id |-> n]         text that is not JSON             *)
(*   [kind |-> "blank"]                  only whitespace                   *)
(***************************************************************************)
EXTENDS Integers, Sequences, FiniteSets, TLC

(* ------------------------------ bounds -------------------------------- *)
\* longest prompt list given to one benchmark run
MaxPrompts == 2
\* time.time() readings are drawn from 0 .. MaxClock
MaxClock == 1
\* most device memory (GB) one engine call takes on top of the resident
\* allocation
MaxMem == 2
\* longest store given to the analysis
MaxLines == 3
\* total latencies of the records of a store: 1 .. MaxLatency ticks for
\* context length 1, MaxLatency + 1 ticks for context length 2
MaxLatency == 2
\* longest list of context lengths given to generate_prompts
MaxLengths == 2
\* num_samples given to generate_prompts: 0 .. MaxSamples
MaxSamples == 2
MaxSetups == 3
MaxMessages == 1

(* --------------------------- rational numbers ------------------------- *)
Abs(x) == IF x < 0 THEN 0 - x ELSE x

RECURSIVE GCD(_, _)
GCD(a, b) == IF b = 0 THEN a ELSE GCD(b, a % b)

\* n / d for d # 0, normalised
Rat(n, d) ==
    LET g == GCD(Abs(n), Abs(d))
        s == IF d < 0 THEN 0 - 1 ELSE 1
    IN  [num |-> (s * n) \div g, den |-> (s * d) \div g]

Zero == [num |-> 0, den |-> 1]
FromInt(n) == [num |-> n, den |-> 1]
RatAdd(a, b) == Rat(a.num * b.den + b.num * a.den, a.den * b.den)
RatSub(a, b) == Rat(a.num * b.den - b.num * a.den, a.den * b.den)
RatMul(a, b) == Rat(a.num * b.num, a.den * b.den)
RatDiv(a, b) == Rat(a.num * b.den, a.den * b.num)
RatLT(a, b) == a.num * b.den < b.num * a.den
RatLE(a, b) == a.num * b.den <= b.num * a.den

(* ------------------------------- state -------------------------------- *)
VARIABLES
    prompts,            \* run_baseline_benchmark's argument: the prompt dicts
    store,              \* the lines of the file at results_path
    cuda_available,     \* torch.cuda.is_available()
    cuda,               \* device counters [allocated, peak], in GB
    pc,                 \* position of run_baseline_benchmark
    idx,                \* prompts handled so far (the loop index)
    start_time,         \* local start_time of the request in progress
    num_output_tokens,  \* local: tokens the engine returned for it
    results,            \* local list of result dicts
    events,             \* history of device resets, engine calls and peak reads
    apc,                \* position of analyze_results.py's main
    loaded,             \* main's local results: what load_results returned
    warnings,           \* line numbers load_results logged a warning for
    analysis,           \* main's local analysis: what analyze_results returned
    exc,                \* the exception that ended main, "none" without one
    error_message,      \* what main logged with logger.error, "none" if nothing
    tables,             \* the tables print_summary_table logged
    csv,                \* the rows of the file at args.output
    gpc,                \* position of generate_rag_prompts.py
    context_lengths,    \* its --context-lengths
    num_samples,        \* its --num-samples
    rng,                \* the draws of its random generator
    prompts_file,       \* the lines of the file at its --output
    loggerDict,         \* logging's registry: the loggers made so far, by name
    setups,             \* history of the setup_logger calls and what they returned
    emitted,            \* history of the records handlers wrote
    log_calls,          \* number of messages logged so far
    wpc,                \* position of workflow.py's main
    wargs,              \* its arguments, and whether the file at --config loads
    prompts_exists,     \* args.prompts.exists()
    subprocesses,       \* the subprocesses run_command started, with their results
    wlog                \* what workflow.py logged at INFO and above

recorder_vars == <<prompts, cuda_available, cuda, pc, idx, start_time,
                   num_output_tokens, results, events>>
analyzer_vars == <<apc, loaded, warnings, analysis, exc, error_message, tables, csv>>
generator_vars == <<gpc, context_lengths, num_samples, rng, prompts_file>>
logger_vars == <<loggerDict, setups, emitted, log_calls>>
workflow_vars == <<wpc, wargs, prompts_exists, subprocesses, wlog>>
other_vars == <<generator_vars, logger_vars, workflow_vars>>
vars == <<store, recorder_vars, analyzer_vars, other_vars>>

\* generate_rag_prompts.py is not running
GeneratorIdle ==
    /\ gpc = "idle"
    /\ context_lengths = <<>>
    /\ num_samples = 0
    /\ rng = <<>>
    /\ prompts_file = <<>>

\* no logger has been set up
LoggerIdle ==
    /\ loggerDict = <<>>
    /\ setups = <<>>
    /\ emitted = {}
    /\ log_calls = 0

\* workflow.py is not running
WorkflowIdle ==
    /\ wpc = "idle"
    /\ wargs = [phase |-> "1", skip_prompt_generation |-> FALSE, config_loads |-> TRUE]
    /\ prompts_exists = FALSE
    /\ subprocesses = <<>>
    /\ wlog = <<>>

OthersIdle == GeneratorIdle /\ LoggerIdle /\ WorkflowIdle

(* ------------------------- inputs of the recorder --------------------- *)
ContextLengths == {1, 2}
Clock == 0 .. MaxClock
\* lengths of the engine's output: none, and the 9 tokens of the worked
\* example (ttft is then a tenth of total_latency)
TokenCounts == {0, 9}

\* A rendered prompt text, as the sequence of its tokens: the text for a
\* nominal context length c has c context tokens and one query token.
PromptText(c) == [i \in 1 .. (c + 1) |-> "tok"]

\* the prompt dicts a run is given: sample 1 of context length 1 and sample 0
\* of context length 2
PromptSet ==
    {[context_length |-> c, sample_id |-> 2 - c, prompt |-> PromptText(c)] :
        c \in ContextLengths}

RECURSIVE SeqsUpTo(_, _)
\* the sequences over S of length at most n
SeqsUpTo(S, n) ==
    IF n = 0 THEN {<<>>}
    ELSE LET shorter == SeqsUpTo(S, n - 1)
         IN  shorter \cup {Append(q, x) : q \in {r \in shorter : Len(r) = n - 1}, x \in S}

\* what the results file holds before the run: k distinct lines of earlier text
OldStore(k) == [i \in 1 .. k |-> [kind |-> "text", id |-> i]]

(* ------------------------- run_baseline.py ---------------------------- *)
\* count_tokens: len(tokenizer.encode(text))
count_tokens(text) == Len(text)

reset_peak_memory_stats_skipped(c) == c

\* torch.cuda.reset_peak_memory_stats(): the peak restarts at what is allocated
reset_peak_memory_stats(c) == [c EXCEPT !.peak = c.allocated]

\* the device during one llm.generate call that takes m GB at its highest;
\* without a device there are no counters to move
EngineUse(avail, c, m) ==
    IF avail
    THEN [c EXCEPT !.peak = IF c.allocated + m > c.peak THEN c.allocated + m ELSE c.peak]
    ELSE c

TTFT_off_by_one(total_latency, n) == RatDiv(total_latency, FromInt(n + 2))

\* ttft = total_latency / (num_output_tokens + 1)
TTFT(total_latency, n) == RatDiv(total_latency, FromInt(n + 1))

DecodeTime_whole_latency(total_latency, ttft) == total_latency

\* decode_time = total_latency - ttft
DecodeTime(total_latency, ttft) == RatSub(total_latency, ttft)

DecodeThroughput_nonzero_guard(n, decode_time) ==
    IF decode_time # Zero THEN RatDiv(FromInt(n), decode_time) ELSE Zero

\* decode_throughput = num_output_tokens / decode_time if decode_time > 0 else 0
DecodeThroughput(n, decode_time) ==
    IF RatLT(Zero, decode_time) THEN RatDiv(FromInt(n), decode_time) ELSE Zero

\* peak_memory = torch.cuda.max_memory_allocated() / 1024**3, or 0 without a
\* device (the counters of the model are already in GB)
PeakMemory(avail, c) == IF avail THEN FromInt(c.peak) ELSE Zero

\* the result dict of one request (its "timestamp", one more clock reading
\* that nothing reads back, is left out)
MakeResult(prompt_data, n, total_latency, peak_memory) ==
    LET ttft == TTFT(total_latency, n)
        decode_time == DecodeTime(total_latency, ttft)
    IN  [context_length |-> prompt_data.context_length,
         sample_id |-> prompt_data.sample_id,
         prompt_tokens |-> count_tokens(prompt_data.prompt),
         output_tokens |-> n,
         ttft |-> ttft,
         total_latency |-> total_latency,
         decode_throughput |-> DecodeThroughput(n, decode_time),
         peak_gpu_memory_gb |-> peak_memory]

\* json.dumps(result) + "\n"
Dumps(result) == [kind |-> "object", val |-> result, null |-> {}]

WriteResults_skip_first(old, rs) == [i \in 1 .. (Len(rs) - 1) |-> Dumps(rs[i + 1])]

\* with open(results_path, "w") as f: for result in results: f.write(...)
\* Mode "w" truncates the file; the lines written are its whole content.
WriteResults(old, rs) == [i \in 1 .. Len(rs) |-> Dumps(rs[i])]

Log(op, req, value) == Append(events, <<op, req, value>>)

\* analyze_results.py is not running
AnalyzerIdle ==
    /\ apc = "idle"
    /\ loaded = <<>>
    /\ warnings = <<>>
    /\ analysis = <<>>
    /\ exc = "none"
    /\ error_message = "none"
    /\ tables = <<>>
    /\ csv = <<>>

\* for idx, prompt_data in enumerate(prompts): the next prompt is taken, the
\* device's peak counter is reset and start_time = time.time() is read
NextPrompt ==
    /\ pc = "loop"
    /\ idx < Len(prompts)
    /\ cuda' = IF cuda_available THEN reset_peak_memory_stats(cuda) ELSE cuda
    /\ events' = IF cuda_available THEN Log("reset", idx + 1, 0) ELSE events
    /\ \E t \in Clock : start_time' = t
    /\ pc' = "generate"
    /\ UNCHANGED <<prompts, store, cuda_available, idx, num_output_tokens, results>>
    /\ UNCHANGED <<analyzer_vars, other_vars>>

\* outputs = llm.generate([prompt], sampling_params) returns n tokens
GenerateReturns ==
    /\ pc = "generate"
    /\ \E n \in TokenCounts, m \in 1 .. MaxMem :
          /\ num_output_tokens' = n
          /\ cuda' = EngineUse(cuda_available, cuda, m)
          /\ events' = events \o <<<<"call", idx + 1, 0>>,
                                   <<"return", idx + 1,
                                     IF cuda_available THEN cuda.allocated + m ELSE 0>>>>
    /\ pc' = "stop"
    /\ UNCHANGED <<prompts, store, cuda_available, idx, start_time, results>>
    /\ UNCHANGED <<analyzer_vars, other_vars>>

GenerateRaises_caught ==
    /\ pc = "generate"
    /\ events' = events \o <<<<"call", idx + 1, 0>>, <<"raise", idx + 1, 0>>>>
    /\ idx' = idx + 1
    /\ pc' = "loop"
    /\ UNCHANGED <<prompts, store, cuda_available, cuda, start_time,
                   num_output_tokens, results>>
    /\ UNCHANGED <<analyzer_vars, other_vars>>

\* llm.generate raises: nothing catches it, run_baseline_benchmark ends
GenerateRaises ==
    /\ pc = "generate"
    /\ events' = events \o <<<<"call", idx + 1, 0>>, <<"raise", idx + 1, 0>>>>
    /\ pc' = "raised"
    /\ UNCHANGED <<prompts, store, cuda_available, cuda, idx, start_time,
                   num_output_tokens, results>>
    /\ UNCHANGED <<analyzer_vars, other_vars>>

\* end_time = time.time() ... results.append(result)
StopTimer ==
    /\ pc = "stop"
    /\ \E end_time \in Clock :
          LET total_latency == FromInt(end_time - start_time)
              peak_memory == PeakMemory(cuda_available, cuda)
          IN  results' = Append(results,
                  MakeResult(prompts[idx + 1], num_output_tokens,
                             total_latency, peak_memory))
    /\ events' = IF cuda_available THEN Log("read", idx + 1, cuda.peak) ELSE events
    /\ idx' = idx + 1
    /\ pc' = "loop"
    \* the request's locals are dead until the next request overwrites them
    /\ start_time' = 0
    /\ num_output_tokens' = 0
    /\ UNCHANGED <<prompts, store, cuda_available, cuda>>
    /\ UNCHANGED <<analyzer_vars, other_vars>>

\* after the loop: the results file is written
SaveResults ==
    /\ pc = "loop"
    /\ idx = Len(prompts)
    /\ store' = WriteResults(store, results)
    /\ pc' = "done"
    /\ UNCHANGED <<prompts, cuda_available, cuda, idx, start_time,
                   num_output_tokens, results, events>>
    /\ UNCHANGED <<analyzer_vars, other_vars>>

Init ==
    /\ prompts \in SeqsUpTo(PromptSet, MaxPrompts)
    /\ store \in {OldStore(0), OldStore(2)}
    /\ cuda_available \in BOOLEAN
    /\ cuda = [allocated |-> 1, peak |-> MaxMem + 2]
    /\ pc = "loop"
    /\ idx = 0
    /\ start_time = 0
    /\ num_output_tokens = 0
    /\ results = <<>>
    /\ events = <<>>
    /\ AnalyzerIdle
    /\ OthersIdle

Next ==
    \/ NextPrompt
    \/ GenerateReturns
    \/ GenerateRaises
    \/ StopTimer
    \/ SaveResults

Spec == Init /\ [][Next]_vars

(* ------------------------ analyze_results.py -------------------------- *)
\* f without the key k
Without(f, k) == [x \in DOMAIN f \ {k} |-> f[x]]

\* A well-formed record as the recorder writes it: the request of context
\* length c that returned 9 tokens after l ticks and peaked at l + 1 GB.
WellFormed(c, l) ==
    MakeResult(CHOOSE p \in PromptSet : p.context_length = c,
               9, FromInt(l), FromInt(l + 1))

MetricFields == {"ttft", "total_latency", "decode_throughput"}
OptionalFields == {"peak_gpu_memory_gb", "prompt_tokens", "output_tokens"}
IntFields == {"context_length", "sample_id", "prompt_tokens", "output_tokens"}

\* the record of a request without context: context_length 0, a prompt of
\* the query alone
ZeroContext ==
    MakeResult([context_length |-> 0, sample_id |-> 0, prompt |-> PromptText(0)],
               9, FromInt(1), FromInt(2))

\* The lines a store is made of: well-formed records of context length 1 with
\* each latency, one of context length 2 whose values occur in no other
\* record and one of context length 0, records that lack one field (a metric,
\* an optional one or the context_length), a record whose context_length is
\* null, and lines that are no records.
StoreLines ==
    {Dumps(WellFormed(1, l)) : l \in 1 .. MaxLatency}
    \cup {Dumps(WellFormed(2, MaxLatency + 1)), Dumps(ZeroContext)}
    \cup {Dumps(Without(WellFormed(1, 1), k)) :
             k \in {"decode_throughput", "peak_gpu_memory_gb", "context_length"}}
    \cup {[kind |-> "object", val |-> Without(WellFormed(1, 1), "context_length"),
           null |-> {"context_length"}]}
    \cup {[kind |-> "scalar"], [kind |-> "text", id |-> 1], [kind |-> "blank"]}

\* line.strip(): a line of whitespace becomes the empty string
Strip(line) == IF line.kind = "blank" THEN [kind |-> "empty"] ELSE line

\* json.loads(line): a dict for a JSON object, the value for any other valid
\* JSON; ok is FALSE when it raises json.JSONDecodeError
json_loads(line) ==
    IF line.kind = "object"
    THEN [ok |-> TRUE, value |-> [kind |-> "dict", val |-> line.val, null |-> line.null]]
    ELSE IF line.kind = "scalar"
    THEN [ok |-> TRUE, value |-> [kind |-> "scalar"]]
    ELSE [ok |-> FALSE]

RECURSIVE load_results_loop(_, _)
\* the loop of load_results over the first n lines
load_results_loop(lines, n) ==
    IF n = 0 THEN [results |-> <<>>, warnings |-> <<>>]
    ELSE LET before == load_results_loop(lines, n - 1)
             line == Strip(lines[n])
         IN  IF line.kind = "empty" THEN before
             ELSE IF json_loads(line).ok
             THEN [before EXCEPT !.results = Append(@, json_loads(line).value)]
             ELSE [before EXCEPT !.warnings = Append(@, n)]

load_results(lines) == load_results_loop(lines, Len(lines))

\* A Python dict whose order matters (grouped, analysis) is the sequence of its
\* [key, value] items in insertion order.
KeyIndex(items, k) == {i \in 1 .. Len(items) : items[i].key = k}

\* grouped[ctx_len].append(result), grouped being a defaultdict(list)
GroupAppend(grouped, ctx_len, result) ==
    IF KeyIndex(grouped, ctx_len) # {}
    THEN [i \in 1 .. Len(grouped) |->
             IF grouped[i].key = ctx_len
             THEN [grouped[i] EXCEPT !.value = Append(@, result)]
             ELSE grouped[i]]
    ELSE Append(grouped, [key |-> ctx_len, value |-> <<result>>])

group_result_missing_as_zero(grouped, result) ==
    GroupAppend(grouped,
                IF "context_length" \in DOMAIN result.val
                THEN result.val.context_length ELSE 0,
                result)

group_result_zero_as_missing(grouped, result) ==
    IF "context_length" \notin DOMAIN result.val \/ result.val.context_length = 0
    THEN grouped
    ELSE GroupAppend(grouped, result.val.context_length, result)

\* the body of the grouping loop: ctx_len = result.get("context_length");
\* if ctx_len is not None: grouped[ctx_len].append(result)
\* (the get gives None for an absent and for a null context_length)
group_result(grouped, result) ==
    IF "context_length" \notin DOMAIN result.val THEN grouped
    ELSE GroupAppend(grouped, result.val.context_length, result)

RECURSIVE grouped_loop(_, _)
\* grouped after the first n results
grouped_loop(rs, n) ==
    IF n = 0 THEN <<>> ELSE group_result(grouped_loop(rs, n - 1), rs[n])

RemoveAt(q, i) == [j \in 1 .. (Len(q) - 1) |-> IF j < i THEN q[j] ELSE q[j + 1]]

sorted_items_unsorted(items) == items

RECURSIVE sorted_items(_)
\* sorted(grouped.items()): ascending by key (the keys are distinct)
sorted_items(items) ==
    IF items = <<>> THEN <<>>
    ELSE LET m == CHOOSE i \in 1 .. Len(items) :
                      \A j \in 1 .. Len(items) : items[i].key <= items[j].key
         IN  <<items[m]>> \o sorted_items(RemoveAt(items, m))

RECURSIVE sorted(_)
\* sorted(values) of numbers
sorted(xs) ==
    IF xs = <<>> THEN <<>>
    ELSE LET m == CHOOSE i \in 1 .. Len(xs) : \A j \in 1 .. Len(xs) : RatLE(xs[i], xs[j])
         IN  <<xs[m]>> \o sorted(RemoveAt(xs, m))

RECURSIVE Sum(_)
Sum(xs) == IF xs = <<>> THEN Zero ELSE RatAdd(xs[1], Sum(Tail(xs)))

\* statistics.mean, min, max, statistics.median of a non-empty list
mean(xs) == RatDiv(Sum(xs), FromInt(Len(xs)))
min_is_first(xs) == xs[1]

min(xs) == sorted(xs)[1]
max(xs) == sorted(xs)[Len(xs)]
median_upper_middle(xs) == sorted(xs)[Len(xs) \div 2 + 1]

median(xs) ==
    LET n == Len(xs)
        s == sorted(xs)
    IN  IF n % 2 = 1 THEN s[(n + 1) \div 2]
        ELSE RatDiv(RatAdd(s[n \div 2], s[n \div 2 + 1]), FromInt(2))

\* the square root of a rational: 0 for 0, otherwise kept as a root
Sqrt(r) == IF r = Zero THEN Zero ELSE [sqrt_of |-> r]

\* statistics.stdev: the sample standard deviation of two or more values; on
\* fewer it raises StatisticsError
stdev(xs) ==
    IF Len(xs) < 2 THEN [raised |-> "StatisticsError"]
    ELSE LET m == mean(xs)
             sq == [i \in 1 .. Len(xs) |-> RatMul(RatSub(xs[i], m), RatSub(xs[i], m))]
         IN  Sqrt(RatDiv(Sum(sq), FromInt(Len(xs) - 1)))

\* the number a dict holds under key k
Number(r, k) == IF k \in IntFields THEN FromInt(r.val[k]) ELSE r.val[k]

\* [r[k] for r in ctx_results]
Column(ctx_results, k) == [i \in 1 .. Len(ctx_results) |-> Number(ctx_results[i], k)]

\* [r.get(k, 0) for r in ctx_results]
ColumnOr0(ctx_results, k) ==
    [i \in 1 .. Len(ctx_results) |->
        IF k \in DOMAIN ctx_results[i].val THEN Number(ctx_results[i], k) ELSE Zero]

ttft_stdev_unguarded(ctx_results) == stdev(Column(ctx_results, "ttft"))

\* statistics.stdev([r["ttft"] for r in ctx_results]) if len(ctx_results) > 1 else 0.0
ttft_stdev(ctx_results) ==
    IF Len(ctx_results) > 1 THEN stdev(Column(ctx_results, "ttft")) ELSE Zero

\* the metrics dict of one group
Metrics(ctx_results) ==
    [count |-> Len(ctx_results),
     ttft |->
        [mean |-> mean(Column(ctx_results, "ttft")),
         min |-> min(Column(ctx_results, "ttft")),
         max |-> max(Column(ctx_results, "ttft")),
         median |-> median(Column(ctx_results, "ttft")),
         stdev |-> ttft_stdev(ctx_results)],
     total_latency |->
        [mean |-> mean(Column(ctx_results, "total_latency")),
         min |-> min(Column(ctx_results, "total_latency")),
         max |-> max(Column(ctx_results, "total_latency")),
         median |-> median(Column(ctx_results, "total_latency"))],
     decode_throughput |->
        [mean |-> mean(Column(ctx_results, "decode_throughput")),
         min |-> min(Column(ctx_results, "decode_throughput")),
         max |-> max(Column(ctx_results, "decode_throughput")),
         median |-> median(Column(ctx_results, "decode_throughput"))],
     gpu_memory |->
        [mean |-> mean(ColumnOr0(ctx_results, "peak_gpu_memory_gb")),
         max |-> max(ColumnOr0(ctx_results, "peak_gpu_memory_gb"))],
     prompt_tokens |-> [mean |-> mean(ColumnOr0(ctx_results, "prompt_tokens"))],
     output_tokens |-> [mean |-> mean(ColumnOr0(ctx_results, "output_tokens"))]]

\* analyze_results: result.get raises AttributeError on a result that is no
\* dict, r["ttft"], r["total_latency"] and r["decode_throughput"] raise
\* KeyError on a dict without the key (JSON null occurs in the stores only as
\* a context_length), and an exception of statistics.stdev leaves the function
analyze_results(rs) ==
    IF \E i \in 1 .. Len(rs) : rs[i].kind # "dict"
    THEN [status |-> "raised", exc |-> "AttributeError", analysis |-> <<>>]
    ELSE LET items == sorted_items(grouped_loop(rs, Len(rs)))
         IN  IF \E i \in 1 .. Len(items) : \E j \in 1 .. Len(items[i].value) :
                    \E k \in MetricFields : k \notin DOMAIN items[i].value[j].val
             THEN [status |-> "raised", exc |-> "KeyError", analysis |-> <<>>]
             ELSE IF \E i \in 1 .. Len(items) :
                        "raised" \in DOMAIN ttft_stdev(items[i].value)
             THEN [status |-> "raised", exc |-> "StatisticsError", analysis |-> <<>>]
             ELSE [status |-> "ok", exc |-> "none",
                   analysis |-> [i \in 1 .. Len(items) |->
                       [key |-> items[i].key, value |-> Metrics(items[i].value)]]]

(* ---- print_summary_table and export_to_csv ---- *)
RECURSIVE Pow10(_)
Pow10(d) == IF d = 0 THEN 1 ELSE 10 * Pow10(d - 1)

\* x * 10^d rounded to the nearest integer, ties to the even one
RoundHalfEven(x, d) ==
    LET n == x.num * Pow10(d)
        q == n \div x.den
        r == n - q * x.den
    IN  IF 2 * r < x.den THEN q
        ELSE IF 2 * r > x.den THEN q + 1
        ELSE IF q % 2 = 0 THEN q ELSE q + 1

\* f"{x:<w.df}": the number to d decimals (a root keeps its radicand)
Fixed(x, d) ==
    IF "sqrt_of" \in DOMAIN x THEN [sqrt_of |-> x.sqrt_of, digits |-> d]
    ELSE [scaled |-> RoundHalfEven(x, d), digits |-> d]

\* f"{n:<w}" and str(n) of an int: its decimal digits
Digits(n) == [int |-> n]

\* str(x) of a float, as csv.writer writes it: the shortest text that reads
\* back as x, so no precision is lost
Repr(x) == [repr |-> x]

TtftRow(ctx_len, m) ==
    <<Digits(ctx_len), Digits(m.count), Fixed(m.ttft.mean, 4), Fixed(m.ttft.min, 4),
      Fixed(m.ttft.max, 4), Fixed(m.ttft.median, 4), Fixed(m.ttft.stdev, 4)>>

ThroughputRow_from_latency(ctx_len, m) ==
    <<Digits(ctx_len), Digits(m.count), Fixed(m.total_latency.mean, 2),
      Fixed(m.total_latency.min, 2), Fixed(m.total_latency.max, 2),
      Fixed(m.total_latency.median, 2)>>

ThroughputRow(ctx_len, m) ==
    <<Digits(ctx_len), Digits(m.count), Fixed(m.decode_throughput.mean, 2),
      Fixed(m.decode_throughput.min, 2), Fixed(m.decode_throughput.max, 2),
      Fixed(m.decode_throughput.median, 2)>>

LatencyRow(ctx_len, m) ==
    <<Digits(ctx_len), Digits(m.count), Fixed(m.total_latency.mean, 4),
      Fixed(m.total_latency.min, 4), Fixed(m.total_latency.max, 4),
      Fixed(m.total_latency.median, 4)>>

GpuMemoryRow_peak_before_mean(ctx_len, m) ==
    <<Digits(ctx_len), Fixed(m.gpu_memory.max, 2), Fixed(m.gpu_memory.mean, 2)>>

GpuMemoryRow(ctx_len, m) ==
    <<Digits(ctx_len), Fixed(m.gpu_memory.mean, 2), Fixed(m.gpu_memory.max, 2)>>

\* for ctx_len in sorted(analysis.keys()): m = analysis[ctx_len]; one row
\* each, in each of the five loops
TtftRows(summary) ==
    LET items == sorted_items(summary)
    IN  [i \in 1 .. Len(items) |-> TtftRow(items[i].key, items[i].value)]

ThroughputRows(summary) ==
    LET items == sorted_items(summary)
    IN  [i \in 1 .. Len(items) |-> ThroughputRow(items[i].key, items[i].value)]

LatencyRows(summary) ==
    LET items == sorted_items(summary)
    IN  [i \in 1 .. Len(items) |-> LatencyRow(items[i].key, items[i].value)]

GpuMemoryRows(summary) ==
    LET items == sorted_items(summary)
    IN  [i \in 1 .. Len(items) |-> GpuMemoryRow(items[i].key, items[i].value)]

\* print_summary_table: the four tables, each with its title, its column
\* heads and one row per key of analysis
print_summary_table(summary) ==
    <<[title |-> "Time to First Token (TTFT) by Context Length:",
       header |-> <<"Context (tokens)", "Samples", "Mean (s)", "Min (s)", "Max (s)",
                    "Median (s)", "StdDev">>,
       rows |-> TtftRows(summary)],
      [title |-> "Decode Throughput (tokens/sec) by Context Length:",
       header |-> <<"Context (tokens)", "Samples", "Mean", "Min", "Max", "Median">>,
       rows |-> ThroughputRows(summary)],
      [title |-> "Total Latency (s) by Context Length:",
       header |-> <<"Context (tokens)", "Samples", "Mean (s)", "Min (s)", "Max (s)",
                    "Median (s)">>,
       rows |-> LatencyRows(summary)],
      [title |-> "GPU Memory Usage by Context Length:",
       header |-> <<"Context (tokens)", "Mean (GB)", "Peak (GB)">>,
       rows |-> GpuMemoryRows(summary)]>>

CsvHeader ==
    <<"context_length", "samples",
      "ttft_mean", "ttft_min", "ttft_max", "ttft_median", "ttft_stdev",
      "throughput_mean", "throughput_min", "throughput_max", "throughput_median",
      "latency_mean", "latency_min", "latency_max", "latency_median",
      "gpu_memory_mean", "gpu_memory_peak">>

CsvRow_latency_before_throughput(ctx_len, m) ==
    <<Digits(ctx_len), Digits(m.count),
      Repr(m.ttft.mean), Repr(m.ttft.min), Repr(m.ttft.max), Repr(m.ttft.median),
      Repr(m.ttft.stdev),
      Repr(m.total_latency.mean), Repr(m.total_latency.min),
      Repr(m.total_latency.max), Repr(m.total_latency.median),
      Repr(m.decode_throughput.mean), Repr(m.decode_throughput.min),
      Repr(m.decode_throughput.max), Repr(m.decode_throughput.median),
      Repr(m.gpu_memory.mean), Repr(m.gpu_memory.max)>>

CsvRow(ctx_len, m) ==
    <<Digits(ctx_len), Digits(m.count),
      Repr(m.ttft.mean), Repr(m.ttft.min), Repr(m.ttft.max), Repr(m.ttft.median),
      Repr(m.ttft.stdev),
      Repr(m.decode_throughput.mean), Repr(m.decode_throughput.min),
      Repr(m.decode_throughput.max), Repr(m.decode_throughput.median),
      Repr(m.total_latency.mean), Repr(m.total_latency.min),
      Repr(m.total_latency.max), Repr(m.total_latency.median),
      Repr(m.gpu_memory.mean), Repr(m.gpu_memory.max)>>

CsvRows(summary) ==
    LET items == sorted_items(summary)
    IN  [i \in 1 .. Len(items) |-> CsvRow(items[i].key, items[i].value)]

\* export_to_csv: the header row, then one row per key of analysis
export_to_csv(summary) == <<CsvHeader>> \o CsvRows(summary)

(* ---- main ---- *)
MainLoadResults_empty_is_success ==
    /\ apc = "start"
    /\ LET l == load_results(store)
       IN  /\ loaded' = l.results
           /\ warnings' = l.warnings
           /\ apc' = IF l.results = <<>> THEN "exit_0" ELSE "loaded"
           /\ error_message' = "none"
    /\ UNCHANGED <<store, recorder_vars, other_vars, analysis, exc, tables, csv>>

\* main: results = load_results(args.results); if not results: sys.exit(1)
MainLoadResults ==
    /\ apc = "start"
    /\ LET l == load_results(store)
       IN  /\ loaded' = l.results
           /\ warnings' = l.warnings
           /\ apc' = IF l.results = <<>> THEN "exit_1" ELSE "loaded"
           /\ error_message' = IF l.results = <<>>
                               THEN "No valid results found in file" ELSE "none"
    /\ UNCHANGED <<store, recorder_vars, other_vars, analysis, exc, tables, csv>>

\* main: analysis = analyze_results(results); if not analysis: sys.exit(1);
\* an exception of analyze_results leaves main
MainAnalyzeResults ==
    /\ apc = "loaded"
    /\ LET a == analyze_results(loaded)
       IN  /\ analysis' = a.analysis
           /\ exc' = a.exc
           /\ apc' = IF a.status = "raised" THEN "raised"
                     ELSE IF a.analysis = <<>> THEN "exit_1" ELSE "analyzed"
           /\ error_message' =
                 IF a.status = "ok" /\ a.analysis = <<>>
                 THEN "No valid analysis data (missing context_length field?)"
                 ELSE "none"
    /\ UNCHANGED <<store, recorder_vars, other_vars, loaded, warnings, tables, csv>>

\* main: if not args.quiet: print_summary_table(analysis)
\* (args.quiet is read here only: it is chosen where it is read)
MainPrintSummaryTable ==
    /\ apc = "analyzed"
    /\ \E quiet \in BOOLEAN :
          tables' = IF quiet THEN tables ELSE print_summary_table(analysis)
    /\ apc' = "printed"
    /\ UNCHANGED <<store, recorder_vars, other_vars, loaded, warnings, analysis, exc,
                   error_message, csv>>

\* main: if args.output: export_to_csv(analysis, args.output); then main
\* returns and the process ends with status 0
MainExportToCsv ==
    /\ apc = "printed"
    /\ \E output \in BOOLEAN :
          csv' = IF output THEN export_to_csv(analysis) ELSE csv
    /\ apc' = "exit_0"
    /\ UNCHANGED <<store, recorder_vars, other_vars, loaded, warnings, analysis, exc,
                   error_message, tables>>

\* the completion status of the process: 1 after sys.exit(1) and after an
\* uncaught exception, 0 when main returns
ExitStatus == IF apc = "exit_0" THEN 0 ELSE 1
Terminated == apc \in {"exit_0", "exit_1", "raised"}

\* run_baseline.py is not running
RecorderIdle ==
    /\ prompts = <<>>
    /\ cuda_available = FALSE
    /\ cuda = [allocated |-> 1, peak |-> 1]
    /\ pc = "idle"
    /\ idx = 0
    /\ start_time = 0
    /\ num_output_tokens = 0
    /\ results = <<>>
    /\ events = <<>>

InitAnalyze ==
    /\ store \in SeqsUpTo(StoreLines, MaxLines)
    /\ RecorderIdle
    /\ apc = "start"
    /\ loaded = <<>>
    /\ warnings = <<>>
    /\ analysis = <<>>
    /\ exc = "none"
    /\ error_message = "none"
    /\ tables = <<>>
    /\ csv = <<>>
    /\ OthersIdle

NextAnalyze ==
    \/ MainLoadResults
    \/ MainAnalyzeResults
    \/ MainPrintSummaryTable
    \/ MainExportToCsv

SpecAnalyze == InitAnalyze /\ [][NextAnalyze]_vars

(* ---------------------- generate_rag_prompts.py ----------------------- *)
\* A text is the sequence of its pieces; a piece is a fixed string or one
\* paragraph of context, which is the template around the name of a topic.
topics ==
    <<"machine learning", "neural networks", "transformer architecture",
      "attention mechanisms", "language models", "retrieval augmented generation",
      "vector databases", "embedding models", "semantic search",
      "knowledge graphs", "information retrieval", "natural language processing">>

\* len(topic) for each entry of topics
TopicChars == <<16, 15, 24, 20, 15, 30, 16, 16, 15, 16, 21, 27>>

queries ==
    <<"What are the main findings?", "Summarize the key points.",
      "What is the conclusion?", "Explain the main idea.",
      "What are the important details?", "Give me a brief overview.",
      "What does this tell us?", "What is the summary?">>

\* the characters of the paragraph template around the topic, its first and
\* last line break included
ParagraphTemplateChars == 430

\* The random generator is the stream of its draws, taken one after the
\* other (the stream repeats); random.choice(xs) takes xs at the draw.
Draw(stream, k) == stream[((k - 1) % Len(stream)) + 1]
Choice(xs, r) == (r % Len(xs)) + 1

\* the paragraph on the topic of index t, with len(paragraph)
Paragraph(t) ==
    [text |-> "paragraph", topic |-> topics[t], chars |-> ParagraphTemplateChars + TopicChars[t]]

RECURSIVE paragraphs_loop(_, _, _)
\* while current_length < target_chars: one more paragraph on a random topic;
\* st holds paragraphs, current_length and the number k of draws taken
paragraphs_loop(target_chars, stream, st) ==
    IF st.current_length < target_chars
    THEN LET paragraph == Paragraph(Choice(topics, Draw(stream, st.k + 1)))
         IN  paragraphs_loop(target_chars, stream,
                 [paragraphs |-> Append(st.paragraphs, paragraph),
                  current_length |-> st.current_length + paragraph.chars,
                  k |-> st.k + 1])
    ELSE st

\* generate_rag_context: "\n".join(paragraphs), as the sequence of the
\* paragraphs, after k draws; target_chars = length_tokens * 4
generate_rag_context(length_tokens, stream, k) ==
    LET st == paragraphs_loop(length_tokens * 4, stream,
                              [paragraphs |-> <<>>, current_length |-> 0, k |-> k])
    IN  [context |-> st.paragraphs, k |-> st.k]

RECURSIVE SumChars(_)
SumChars(paragraphs) ==
    IF paragraphs = <<>> THEN 0 ELSE paragraphs[1].chars + SumChars(Tail(paragraphs))

\* len(context): the paragraphs and one line break between two of them
Chars(context) ==
    IF context = <<>> THEN 0 ELSE SumChars(context) + Len(context) - 1

\* generate_query: random.choice(queries)
generate_query(stream, k) == queries[Choice(queries, Draw(stream, k + 1))]

\* create_rag_prompt: "Context:\n{context}\n\nQuestion: {query}\n\nAnswer:"
create_rag_prompt(context, query) ==
    <<[text |-> "Context:"]>> \o context
        \o <<[text |-> "Question:"], [text |-> query], [text |-> "Answer:"]>>

RECURSIVE samples_loop(_, _, _, _)
\* for sample_idx in range(num_samples), after its first n rounds; st holds
\* prompts and the number k of draws taken
samples_loop(ctx_len, n, stream, st) ==
    IF n <= 0 THEN st
    ELSE LET before == samples_loop(ctx_len, n - 1, stream, st)
             sample_idx == n - 1
             c == generate_rag_context(ctx_len, stream, before.k)
             query == generate_query(stream, c.k)
         IN  [prompts |-> Append(before.prompts,
                             [context_length |-> ctx_len,
                              sample_id |-> sample_idx,
                              prompt |-> create_rag_prompt(c.context, query),
                              query |-> query]),
              k |-> c.k + 1]

RECURSIVE lengths_loop(_, _, _, _)
\* for ctx_len in context_lengths, after its first i rounds
lengths_loop(lengths, i, samples, stream) ==
    IF i = 0 THEN [prompts |-> <<>>, k |-> 0]
    ELSE samples_loop(lengths[i], samples, stream,
                      lengths_loop(lengths, i - 1, samples, stream))

generate_prompts_last_first(lengths, samples, stream) ==
    LET generated == lengths_loop(lengths, Len(lengths), samples, stream).prompts
    IN  [i \in 1 .. Len(generated) |-> Dumps(generated[Len(generated) + 1 - i])]

\* generate_prompts: the lines written to output_path, one json.dumps(prompt)
\* per prompt
generate_prompts(lengths, samples, stream) ==
    LET generated == lengths_loop(lengths, Len(lengths), samples, stream).prompts
    IN  [i \in 1 .. Len(generated) |-> Dumps(generated[i])]

\* generate_rag_prompts.py run with --context-lengths and --num-samples: the
\* file at --output is opened with "w" and holds the prompts
GeneratePrompts ==
    /\ gpc = "start"
    /\ prompts_file' = generate_prompts(context_lengths, num_samples, rng)
    /\ gpc' = "done"
    /\ UNCHANGED <<context_lengths, num_samples, rng>>
    /\ UNCHANGED <<store, recorder_vars, analyzer_vars, logger_vars, workflow_vars>>

\* the context lengths asked of the generator: none, one token, the 100
\* tokens of the test and 115 tokens
GenLengths == {0, 1, 100, 115}
\* draws that pick a topic of 16, of 30 and of 15 characters
Draws == {0, 5, 8}
Streams == {<<a, b>> : a \in Draws, b \in Draws}

InitGenerate ==
    /\ context_lengths \in SeqsUpTo(GenLengths, MaxLengths)
    /\ num_samples \in 0 .. MaxSamples
    /\ rng \in Streams
    /\ prompts_file = <<>>
    /\ gpc = "start"
    /\ store = <<>>
    /\ RecorderIdle
    /\ AnalyzerIdle
    /\ LoggerIdle
    /\ WorkflowIdle

NextGenerate == GeneratePrompts

SpecGenerate == InitGenerate /\ [][NextGenerate]_vars

(* ----------- generate_rag_prompts.py, then run_baseline.py ------------ *)
load_prompts_without_first(lines) == [i \in 1 .. (Len(lines) - 1) |-> lines[i + 1].val]

\* load_prompts: json.loads(line.strip()) for each line of the prompts file
load_prompts(lines) == [i \in 1 .. Len(lines) |-> lines[i].val]

\* run_baseline.py's main: prompts = load_prompts(args.prompts), then
\* run_baseline_benchmark(config, prompts, results_path) begins
LoadPrompts ==
    /\ gpc = "done"
    /\ pc = "idle"
    /\ prompts' = load_prompts(prompts_file)
    /\ pc' = "loop"
    /\ UNCHANGED <<store, cuda_available, cuda, idx, start_time,
                   num_output_tokens, results, events>>
    /\ UNCHANGED <<analyzer_vars, generator_vars, logger_vars, workflow_vars>>

\* what the pipeline is run on: context lengths with and without a
\* repetition, one to three samples, at most three prompts
PipelineInputs ==
    {<<l, n>> \in SeqsUpTo(ContextLengths, 2) \X (1 .. 3) : Len(l) * n <= 3}

InitPipeline ==
    /\ \E inp \in PipelineInputs :
          /\ context_lengths = inp[1]
          /\ num_samples = inp[2]
    /\ rng \in {<<0, 5>>, <<8, 8>>}
    /\ prompts_file = <<>>
    /\ gpc = "start"
    /\ store = <<>>
    /\ RecorderIdle
    /\ AnalyzerIdle
    /\ LoggerIdle
    /\ WorkflowIdle

NextPipeline ==
    \/ GeneratePrompts
    \/ LoadPrompts
    \/ NextPrompt
    \/ GenerateReturns
    \/ GenerateRaises
    \/ StopTimer
    \/ SaveResults

SpecPipeline == InitPipeline /\ [][NextPipeline]_vars

(* ------------------------- utils/logger.py ---------------------------- *)
\* A logger name is the sequence of its dot-separated parts: the module
\* logger of run_baseline.py, its "<module>.benchmark" logger and a logger of
\* another name.
LoggerNames == {<<"run_baseline">>, <<"run_baseline", "benchmark">>, <<"multi1">>}
Levels == {"INFO", "WARNING"}
\* logging.INFO and logging.WARNING
levelno(level) == IF level = "INFO" THEN 20 ELSE 30

\* logging.getLogger(name): the logger the registry holds under the name, a
\* new one (no level, no handlers, propagate as logging makes it) otherwise
getLogger(registry, name) ==
    IF name \in DOMAIN registry THEN registry[name]
    ELSE [id |-> Cardinality(DOMAIN registry) + 1, level |-> "NOTSET",
          handlers |-> <<>>, propagate |-> TRUE]

\* logging.FileHandler(log_dir / log_file, mode='a') of the call-th
\* setup_logger call; the default log_file starts with name.split('.')[-1]
FileHandler(name, call, level) ==
    [kind |-> "file", target |-> name[Len(name)], level |-> level, call |-> call]

\* logging.StreamHandler(sys.stdout) of the call-th setup_logger call
StreamHandler(call, level) ==
    [kind |-> "console", target |-> "stdout", level |-> level, call |-> call]

setup_logger_keeps_handlers(logger, name, call, level, console) ==
    [logger EXCEPT
        !.level = level,
        !.handlers = @ \o <<FileHandler(name, call, level)>>
                       \o (IF console THEN <<StreamHandler(call, level)>> ELSE <<>>)]

\* setup_logger on the logger getLogger(name) gave: setLevel(level),
\* handlers = [], addHandler(file_handler), and addHandler(console_handler)
\* if console
setup_logger(logger, name, call, level, console) ==
    [logger EXCEPT
        !.level = level,
        !.handlers = <<FileHandler(name, call, level)>>
                       \o (IF console THEN <<StreamHandler(call, level)>> ELSE <<>>)]

\* the registry with logger under name
Registered(registry, name, logger) ==
    [n \in DOMAIN registry \cup {name} |-> IF n = name THEN logger ELSE registry[n]]

\* a call of setup_logger(name, level=level, console=console)
SetupLogger ==
    /\ Len(setups) < MaxSetups
    /\ \E name \in LoggerNames, level \in Levels, console \in BOOLEAN :
          LET call == Len(setups) + 1
              logger == setup_logger(getLogger(loggerDict, name), name, call, level, console)
          IN  /\ loggerDict' = Registered(loggerDict, name, logger)
              /\ setups' = Append(setups, [name |-> name, console |-> console,
                                           call |-> call, returned |-> logger.id])
    /\ UNCHANGED <<emitted, log_calls>>
    /\ UNCHANGED <<store, recorder_vars, analyzer_vars, generator_vars, workflow_vars>>

\* the names a dotted name is below: its proper prefixes
Ancestors(name) == {SubSeq(name, 1, k) : k \in 1 .. (Len(name) - 1)}

RECURSIVE callHandlers(_, _, _, _)
\* Logger.callHandlers: the handlers of the logger and, while propagate is
\* set, of its nearest registered ancestor and so on up to the root logger
\* (which has no handlers) that take a record of level lvl; message is the
\* number of the record, via the name it was logged through
callHandlers(registry, name, via, rec) ==
    LET c == registry[name]
        here == {[message |-> rec.message, via |-> via, logger |-> name,
                  handler |-> c.handlers[h]] :
                    h \in {i \in 1 .. Len(c.handlers) :
                              levelno(rec.level) >= levelno(c.handlers[i].level)}}
        above == Ancestors(name) \cap DOMAIN registry
    IN  IF c.propagate /\ above # {}
        THEN here \cup callHandlers(registry,
                         CHOOSE a \in above : \A b \in above : Len(b) <= Len(a),
                         via, rec)
        ELSE here

\* logger.info(...) or logger.warning(...) on a logger that setup_logger
\* returned: dropped below the logger's level, handled otherwise
LogMessage ==
    /\ log_calls < MaxMessages
    /\ \E name \in DOMAIN loggerDict, level \in Levels :
          LET rec == [message |-> log_calls + 1, level |-> level]
          IN  emitted' = IF levelno(level) >= levelno(loggerDict[name].level)
                         THEN emitted \cup callHandlers(loggerDict, name, name, rec)
                         ELSE emitted
    /\ log_calls' = log_calls + 1
    /\ UNCHANGED <<loggerDict, setups>>
    /\ UNCHANGED <<store, recorder_vars, analyzer_vars, generator_vars, workflow_vars>>

InitLogger ==
    /\ LoggerIdle
    /\ GeneratorIdle
    /\ WorkflowIdle
    /\ store = <<>>
    /\ RecorderIdle
    /\ AnalyzerIdle

NextLogger == SetupLogger \/ LogMessage

SpecLogger == InitLogger /\ [][NextLogger]_vars

(* --------------------------- workflow.py ------------------------------ *)
Phases == {"1", "2", "3", "all"}
\* what a subprocess ends with: success, an error status, death by a signal;
\* with or without text on its standard error
ReturnCodes == {0, 1, -9}
CompletedProcesses == [returncode : ReturnCodes, stderr : BOOLEAN]

\* generate_cmd: the script and --output, and --context-lengths and
\* --num-samples when the file at --config loads
generate_cmd(config_loads) ==
    [script |-> "scripts/generate_rag_prompts.py",
     options |-> IF config_loads
                 THEN <<"--output", "--context-lengths", "--num-samples">>
                 ELSE <<"--output">>]

baseline_cmd ==
    [script |-> "scripts/run_baseline.py", options |-> <<"--config", "--prompts">>]

\* run_command up to subprocess.run: what it logs
run_command_begin(description) == <<[level |-> "INFO", text |-> "Running", of |-> description]>>

run_command_ignores_returncode(description, result) ==
    [ok |-> TRUE,
     log |-> <<[level |-> "INFO", text |-> "completed successfully", of |-> description]>>]

\* run_command after subprocess.run: what it returns and logs (the debug
\* lines are below the logger's level)
run_command(description, result) ==
    IF result.returncode # 0
    THEN [ok |-> FALSE,
          log |-> <<[level |-> "ERROR", text |-> "failed with exit code", of |-> description]>>
                  \o (IF result.stderr
                      THEN <<[level |-> "ERROR", text |-> "Error output", of |-> description]>>
                      ELSE <<>>)]
    ELSE [ok |-> TRUE,
          log |-> <<[level |-> "INFO", text |-> "completed successfully", of |-> description]>>]

\* main after phase 1: the placeholders of phases 2 and 3, and the end
LaterPhases(phase) ==
    (IF phase \in {"2", "all"}
     THEN <<[level |-> "WARNING", text |-> "Phase 2 not yet implemented"]>> ELSE <<>>)
    \o (IF phase \in {"3", "all"}
        THEN <<[level |-> "WARNING", text |-> "Phase 3 not yet implemented"]>> ELSE <<>>)
    \o <<[level |-> "INFO", text |-> "Workflow completed!"]>>

\* a subprocess whose subprocess.run has not returned has no result yet
Started(cmd) == Append(subprocesses, [cmd |-> cmd, result |-> <<>>])
Finished(result) == [subprocesses EXCEPT ![Len(subprocesses)].result = <<result>>]

\* main up to its first subprocess.run, or to its end when phase 1 is not
\* asked for
MainBegins ==
    /\ wpc = "start"
    /\ IF wargs.phase \in {"1", "all"}
       THEN IF ~wargs.skip_prompt_generation /\ ~prompts_exists
            THEN /\ wlog' = wlog
                       \o <<[level |-> "INFO", text |-> "Generating RAG prompts..."]>>
                       \o (IF wargs.config_loads THEN <<>>
                           ELSE <<[level |-> "WARNING",
                                   text |-> "Could not load config for prompt generation"]>>)
                       \o run_command_begin("Generate RAG prompts")
                 /\ subprocesses' = Started(generate_cmd(wargs.config_loads))
                 /\ wpc' = "generate"
            ELSE /\ wlog' = wlog
                       \o (IF wargs.skip_prompt_generation THEN <<>>
                           ELSE <<[level |-> "INFO", text |-> "Using existing prompts"]>>)
                       \o run_command_begin("Run baseline inference benchmark")
                 /\ subprocesses' = Started(baseline_cmd)
                 /\ wpc' = "baseline"
       ELSE /\ wlog' = wlog \o LaterPhases(wargs.phase)
            /\ subprocesses' = subprocesses
            /\ wpc' = "done"
    /\ UNCHANGED <<wargs, prompts_exists>>
    /\ UNCHANGED <<store, recorder_vars, analyzer_vars, generator_vars, logger_vars>>

\* scripts/generate_rag_prompts.py ends (having written the prompts file when
\* it ends with 0): if not run_command(generate_cmd, ...): sys.exit(1), else
\* main goes on to the baseline run
GenerateEnds ==
    /\ wpc = "generate"
    /\ \E result \in CompletedProcesses :
          LET r == run_command("Generate RAG prompts", result)
          IN  IF ~r.ok
              THEN /\ wlog' = wlog \o r.log
                         \o <<[level |-> "ERROR", text |-> "Failed to generate prompts. Exiting."]>>
                   /\ subprocesses' = Finished(result)
                   /\ wpc' = "exit_1"
                   /\ UNCHANGED prompts_exists
              ELSE /\ wlog' = wlog \o r.log
                         \o run_command_begin("Run baseline inference benchmark")
                   /\ subprocesses' = Append(Finished(result),
                                             [cmd |-> baseline_cmd, result |-> <<>>])
                   /\ wpc' = "baseline"
                   /\ prompts_exists' = (prompts_exists \/ result.returncode = 0)
    /\ UNCHANGED wargs
    /\ UNCHANGED <<store, recorder_vars, analyzer_vars, generator_vars, logger_vars>>

\* scripts/run_baseline.py ends: if not run_command(baseline_cmd, ...):
\* sys.exit(1), else the rest of main
BaselineEnds ==
    /\ wpc = "baseline"
    /\ \E result \in CompletedProcesses :
          LET r == run_command("Run baseline inference benchmark", result)
          IN  /\ subprocesses' = Finished(result)
              /\ IF ~r.ok
                 THEN /\ wlog' = wlog \o r.log
                            \o <<[level |-> "ERROR", text |-> "Baseline inference failed. Exiting."]>>
                      /\ wpc' = "exit_1"
                 ELSE /\ wlog' = wlog \o r.log
                            \o <<[level |-> "INFO", text |-> "Phase 1 completed successfully"]>>
                            \o LaterPhases(wargs.phase)
                      /\ wpc' = "done"
    /\ UNCHANGED <<wargs, prompts_exists>>
    /\ UNCHANGED <<store, recorder_vars, analyzer_vars, generator_vars, logger_vars>>

\* the completion status of workflow.py: 1 after sys.exit(1), 0 when main returns
WorkflowStatus == IF wpc = "exit_1" THEN 1 ELSE 0

InitWorkflow ==
    /\ wpc = "start"
    /\ wargs \in [phase : Phases, skip_prompt_generation : BOOLEAN, config_loads : BOOLEAN]
    /\ prompts_exists \in BOOLEAN
    /\ subprocesses = <<>>
    /\ wlog = <<>>
    /\ GeneratorIdle
    /\ LoggerIdle
    /\ store = <<>>
    /\ RecorderIdle
    /\ AnalyzerIdle

NextWorkflow == MainBegins \/ GenerateEnds \/ BaselineEnds

SpecWorkflow == InitWorkflow /\ [][NextWorkflow]_vars

(* ======================= claims about the recorder ==================== *)
IsPrefix(s, t) == Len(s) <= Len(t) /\ \A i \in 1 .. Len(s) : t[i] = s[i]
IsSuffix(s, t) ==
    Len(s) <= Len(t) /\ \A i \in 1 .. Len(s) : t[Len(t) - Len(s) + i] = s[i]
Positive(r) == r.num > 0
NonNegative(r) == r.num >= 0

\* C1 (as claimed): recording results is append-only: whatever the run writes
\* to the results file, every line that was stored before is still there,
\* unchanged and at its original position, the new records coming after.
C1_AppendOnly == [][IsPrefix(store, store')]_vars

\* C2 (as claimed): when the engine call of prompt k raises, the store holds the
\* records of prompts 1 .. k-1 (as its last lines) when the run terminates.
C2_RecordsDurableOnFailure ==
    pc = "raised" => IsSuffix([i \in 1 .. Len(results) |-> Dumps(results[i])], store)

\* C3: every recorded ttft equals total_latency / (output_tokens + 1), that is
\* ttft * (output_tokens + 1) = total_latency, for every output_tokens >= 0;
\* with 0 tokens ttft is total_latency itself.
C3_TtftFormula ==
    \A i \in 1 .. Len(results) :
        LET r == results[i]
        IN  /\ r.ttft.num * (r.output_tokens + 1) * r.total_latency.den
                 = r.total_latency.num * r.ttft.den
            /\ r.output_tokens = 0 => r.ttft = r.total_latency

\* C3 witness: the worked example, 9 output tokens: ttft is a tenth of a
\* positive total_latency (2.0 s gives 0.20 s)
C3_Witness ==
    \E i \in 1 .. Len(results) :
        /\ results[i].output_tokens = 9
        /\ results[i].total_latency = FromInt(1)
        /\ results[i].ttft = [num |-> 1, den |-> 10]

\* C4: with decode_time = total_latency - ttft, the recorded decode_throughput
\* is output_tokens / decode_time when decode_time > 0 and 0 otherwise; a
\* request with 0 output tokens has decode_throughput 0.
C4_DecodeThroughput ==
    \A i \in 1 .. Len(results) :
        LET r == results[i]
            \* decode_time = dn / dd with dd > 0
            dn == r.total_latency.num * r.ttft.den - r.ttft.num * r.total_latency.den
            dd == r.total_latency.den * r.ttft.den
        IN  /\ dn > 0 => r.decode_throughput.num * dn
                            = r.output_tokens * dd * r.decode_throughput.den
            /\ dn <= 0 => r.decode_throughput = Zero
            /\ r.output_tokens = 0 => r.decode_throughput = Zero

\* C4 witness: both branches recorded in one run: a request with 0 output
\* tokens (decode_time 0, throughput 0) and one with 9 tokens in positive time
C4_Witness ==
    /\ \E i \in 1 .. Len(results) :
          /\ results[i].output_tokens = 0
          /\ Positive(results[i].total_latency)
          /\ results[i].decode_throughput = Zero
    /\ \E i \in 1 .. Len(results) :
          /\ results[i].output_tokens = 9
          /\ results[i].total_latency = FromInt(1)
          /\ results[i].decode_throughput = FromInt(10)

\* C5 (as claimed): every record has total_latency >= 0, ttft >= 0,
\* output_tokens >= 0 and decode_throughput >= 0, whatever the two clock
\* readings were.
C5_RecordInvariants ==
    \A i \in 1 .. Len(results) :
        /\ NonNegative(results[i].total_latency)
        /\ NonNegative(results[i].ttft)
        /\ results[i].output_tokens >= 0
        /\ NonNegative(results[i].decode_throughput)

Calls(req) == {p \in 1 .. Len(events) : events[p][1] = "call" /\ events[p][2] = req}
Raises == {p \in 1 .. Len(events) : events[p][1] = "raise"}

\* C6: the engine is called at most once per prompt, and an engine call that
\* raises is the last thing the run does: the run has ended with the error
\* (nothing caught it), no later prompt was submitted and nothing was written.
C6_FailFast ==
    /\ \A req \in 1 .. Len(prompts) : Cardinality(Calls(req)) <= 1
    /\ \A p \in Raises :
          /\ p = Len(events)
          /\ pc = "raised"
          /\ \A req \in (events[p][2] + 1) .. Len(prompts) : Calls(req) = {}
    /\ pc = "raised" => Raises # {}

\* C6 witness: the first prompt's engine call raised while another prompt was
\* still to come
C6_Witness ==
    /\ pc = "raised"
    /\ idx + 1 < Len(prompts)
    /\ Calls(idx + 1) # {}

\* C7: after a run in which every engine call returned, the store ends with
\* exactly one record per prompt: its last Len(prompts) lines are the run's
\* records, in prompt order, the i-th with the i-th prompt's context_length
\* and sample_id.
C7_OneRecordPerPrompt ==
    pc = "done" =>
        /\ Len(results) = Len(prompts)
        /\ Len(store) >= Len(prompts)
        /\ \A i \in 1 .. Len(prompts) :
              LET line == store[Len(store) - Len(prompts) + i]
              IN  /\ line = Dumps(results[i])
                  /\ line.val.context_length = prompts[i].context_length
                  /\ line.val.sample_id = prompts[i].sample_id

\* C7 witness: a finished run over two different prompts
C7_Witness ==
    /\ pc = "done"
    /\ Len(prompts) >= 2
    /\ prompts[1] # prompts[2]
    /\ store # <<>>

\* C8: with a device, every peak read of a request comes right after that
\* request's own reset, engine call and return, in this order with nothing of
\* another request in between, and the value recorded is the highest
\* allocation of the request's own engine call.
C8_PeakMemoryWindow ==
    cuda_available =>
        /\ \A p \in 1 .. Len(events) :
              events[p][1] = "read" =>
                  /\ p >= 4
                  /\ events[p - 3] = <<"reset", events[p][2], 0>>
                  /\ events[p - 2] = <<"call", events[p][2], 0>>
                  /\ events[p - 1][1] = "return"
                  /\ events[p - 1][2] = events[p][2]
                  /\ events[p][3] = events[p - 1][3]
                  /\ results[events[p][2]].peak_gpu_memory_gb = FromInt(events[p][3])
        /\ \A p \in 1 .. Len(events) :
              events[p][1] = "call" => p >= 2 /\ events[p - 1] = <<"reset", events[p][2], 0>>
        /\ \A i \in 1 .. Len(results) :
              \E p \in 1 .. Len(events) : events[p][1] = "read" /\ events[p][2] = i

\* C8 witness: two requests measured on a device, the second taking less
\* memory than the first
C8_Witness ==
    /\ cuda_available
    /\ Len(results) = 2
    /\ RatLT(results[2].peak_gpu_memory_gb, results[1].peak_gpu_memory_gb)

(* ======================= claims about the analysis ==================== *)
IsRecordLine(line) == line.kind = "object"
RecordLines(lines) == SelectSeq(lines, IsRecordLine)

\* C9 (as claimed): whatever the store holds, load_results does not raise and
\* returns exactly the lines that are records, in file order, with one warning
\* for each other line that is not blank.
C9_LoadSkipsMalformed ==
    apc # "start" =>
        /\ loaded = [i \in 1 .. Len(RecordLines(store)) |->
                        json_loads(RecordLines(store)[i]).value]
        /\ warnings = SelectSeq([i \in 1 .. Len(store) |-> i],
                          LAMBDA n : store[n].kind \notin {"object", "blank"})

HasContext(r) == r.kind = "dict" /\ "context_length" \in DOMAIN r.val
InGroup(rs, c) == SelectSeq(rs, LAMBDA r : HasContext(r) /\ r.val.context_length = c)

\* C10 (as claimed): when every loaded record has a context_length, whatever
\* other fields some of them lack, analyze_results completes without raising,
\* counts every record in its group and takes an absent field as 0 in the
\* group's statistics.
C10_AbsentFieldsAreZero ==
    (apc \in {"analyzed", "raised", "exit_1"} /\ loaded # <<>>
        /\ \A i \in 1 .. Len(loaded) : HasContext(loaded[i])) =>
        /\ apc = "analyzed"
        /\ \A g \in 1 .. Len(analysis) :
              LET group == InGroup(loaded, analysis[g].key)
              IN  /\ analysis[g].value.count = Len(group)
                  /\ analysis[g].value.ttft.mean = mean(ColumnOr0(group, "ttft"))
                  /\ analysis[g].value.gpu_memory.mean
                        = mean(ColumnOr0(group, "peak_gpu_memory_gb"))

\* main has called analyze_results on loaded, and nothing later has happened
JustAnalyzed == apc \in {"analyzed", "raised"} \/ (apc = "exit_1" /\ loaded # <<>>)
AllDicts(rs) == \A i \in 1 .. Len(rs) : rs[i].kind = "dict"
LacksContext(r) == r.kind = "dict" /\ "context_length" \notin DOMAIN r.val
WithContext(rs) == SelectSeq(rs, LAMBDA r : ~LacksContext(r))

\* C11: records without a context_length (absent or null) are in no group:
\* every group's count is the number of loaded records carrying its key, and
\* what analyze_results gave for the loaded records (the summary, or the
\* exception) is what it gives for them with those records removed.
C11_MissingContextExcluded ==
    (JustAnalyzed /\ AllDicts(loaded)) =>
        /\ \A g \in 1 .. Len(analysis) :
              analysis[g].value.count = Len(InGroup(loaded, analysis[g].key))
        /\ LET a == analyze_results(WithContext(loaded))
           IN  /\ analysis = a.analysis
               /\ exc = a.exc

\* C11 witness: a summary made from a record with a context_length, one
\* without the field and one with a null context_length
C11_Witness ==
    /\ apc = "analyzed"
    /\ Len(analysis) = 1
    /\ \E i, j \in 1 .. Len(loaded) :
          /\ LacksContext(loaded[i]) /\ loaded[i].null = {}
          /\ LacksContext(loaded[j]) /\ loaded[j].null = {"context_length"}

Shuffles(n) ==
    {f \in [1 .. n -> 1 .. n] : \A i, j \in 1 .. n : f[i] = f[j] => i = j}
Permuted(rs, f) == [i \in 1 .. Len(rs) |-> rs[f[i]]]

\* C12: what analyze_results gave for the loaded records (the keys, each
\* key's count and statistics, or the exception) is what it gives for every
\* permutation of them.
C12_OrderIndependent ==
    JustAnalyzed =>
        \A f \in Shuffles(Len(loaded)) :
            LET a == analyze_results(Permuted(loaded, f))
            IN  /\ analysis = a.analysis
                /\ exc = a.exc

\* C12 witness: a summary of two groups made from records whose context
\* lengths are interleaved, the two records of one group differing
C12_Witness ==
    /\ apc = "analyzed"
    /\ Len(analysis) = 2
    /\ \E i, j, k \in 1 .. Len(loaded) :
          /\ i < j /\ j < k
          /\ HasContext(loaded[i]) /\ HasContext(loaded[j]) /\ HasContext(loaded[k])
          /\ loaded[i].val.context_length = loaded[k].val.context_length
          /\ loaded[i].val.context_length # loaded[j].val.context_length
          /\ loaded[i].val.ttft # loaded[k].val.ttft

\* the values the records of one group hold under key k (0 where a record
\* has no such key, as r.get(k, 0) gives)
ValuesOf(members, k) ==
    [i \in 1 .. Len(members) |->
        IF k \in DOMAIN members[i].val THEN members[i].val[k] ELSE Zero]
\* v is the k-th smallest of vals
IsKth(v, vals, k) ==
    /\ \E i \in 1 .. Len(vals) : vals[i] = v
    /\ Cardinality({i \in 1 .. Len(vals) : RatLT(vals[i], v)}) < k
    /\ Cardinality({i \in 1 .. Len(vals) : RatLE(vals[i], v)}) >= k
IsMean(v, vals) == RatMul(v, FromInt(Len(vals))) = Sum(vals)
IsMin(v, vals) == IsKth(v, vals, 1)
IsMax(v, vals) == IsKth(v, vals, Len(vals))
IsMedian(v, vals) ==
    LET n == Len(vals)
    IN  IF n % 2 = 1 THEN IsKth(v, vals, (n + 1) \div 2)
        ELSE \E i, j \in 1 .. n :
                /\ IsKth(vals[i], vals, n \div 2)
                /\ IsKth(vals[j], vals, n \div 2 + 1)
                /\ RatMul(v, FromInt(2)) = RatAdd(vals[i], vals[j])

\* C13: in the summary analyze_results returned, every group's count is the
\* number of loaded records with the group's key, and its ttft, total_latency
\* and decode_throughput mean, min, max and median, and its gpu_memory mean
\* and max, are those of the values of exactly these records.
C13_GroupStatistics ==
    apc = "analyzed" =>
        \A g \in 1 .. Len(analysis) :
            LET members == InGroup(loaded, analysis[g].key)
                m == analysis[g].value
            IN  /\ m.count = Len(members)
                /\ m.count > 0
                /\ \A k \in MetricFields :
                      /\ IsMean(m[k].mean, ValuesOf(members, k))
                      /\ IsMin(m[k].min, ValuesOf(members, k))
                      /\ IsMax(m[k].max, ValuesOf(members, k))
                      /\ IsMedian(m[k].median, ValuesOf(members, k))
                /\ IsMean(m.gpu_memory.mean, ValuesOf(members, "peak_gpu_memory_gb"))
                /\ IsMax(m.gpu_memory.max, ValuesOf(members, "peak_gpu_memory_gb"))

\* C13 witness: a summary of two groups, one of them of two records that
\* differ
C13_Witness ==
    /\ apc = "analyzed"
    /\ Len(analysis) = 2
    /\ \E g \in 1 .. Len(analysis) :
          /\ analysis[g].value.count = 2
          /\ analysis[g].value.ttft.min # analysis[g].value.ttft.max

Squares(vals) == [i \in 1 .. Len(vals) |-> RatMul(vals[i], vals[i])]
\* the sample variance of two or more values:
\* (sum of squares - (sum)^2 / n) / (n - 1)
SampleVariance(vals) ==
    RatDiv(RatSub(Sum(Squares(vals)),
                  RatDiv(RatMul(Sum(vals), Sum(vals)), FromInt(Len(vals)))),
           FromInt(Len(vals) - 1))
\* v is the square root of r
IsSqrt(v, r) == IF r = Zero THEN v = Zero ELSE v = [sqrt_of |-> r]

\* C14: analyze_results never ends in a StatisticsError; in its summary the
\* ttft stdev of a group of one record is exactly 0 and that of a group of
\* two or more records is the sample standard deviation of their ttft.
C14_SingletonStdevZero ==
    JustAnalyzed =>
        /\ exc # "StatisticsError"
        /\ \A g \in 1 .. Len(analysis) :
              LET members == InGroup(loaded, analysis[g].key)
                  sd == analysis[g].value.ttft.stdev
              IN  IF Len(members) = 1 THEN sd = Zero
                  ELSE IsSqrt(sd, SampleVariance(ValuesOf(members, "ttft")))

\* C14 witness: a summary with a group of one record and a group of two
\* records whose ttft differ
C14_Witness ==
    /\ apc = "analyzed"
    /\ \E g, h \in 1 .. Len(analysis) :
          /\ analysis[g].value.count = 1
          /\ analysis[h].value.count = 2
          /\ analysis[h].value.ttft.stdev # Zero

\* the first cells of the rows after the first `skip` rows
FirstCells(rows, skip) == [i \in 1 .. (Len(rows) - skip) |-> rows[i + skip][1]]
\* the keys of a summary in its iteration order, as cells
KeyCells(summary) == [i \in 1 .. Len(summary) |-> Digits(summary[i].key)]

\* C15: the keys of the summary are strictly ascending in its iteration
\* order, and the rows of each rendered table and the data rows of the CSV
\* file list the same keys in the same order.
C15_AscendingGroups ==
    /\ \A i, j \in 1 .. Len(analysis) : i < j => analysis[i].key < analysis[j].key
    /\ \A t \in 1 .. Len(tables) : FirstCells(tables[t].rows, 0) = KeyCells(analysis)
    /\ csv # <<>> => FirstCells(csv, 1) = KeyCells(analysis)

\* C15 witness: main has rendered the tables and written the CSV file for a
\* store that holds a record of context length 2 before one of context
\* length 1
C15_Witness ==
    /\ apc = "exit_0"
    /\ tables # <<>>
    /\ Len(csv) = 3
    /\ \E i, j \in 1 .. Len(loaded) :
          /\ i < j
          /\ HasContext(loaded[i]) /\ loaded[i].val.context_length = 2
          /\ HasContext(loaded[j]) /\ loaded[j].val.context_length = 1

\* The statistics both outputs show: where each stands in its table (table,
\* column, decimals) and in the CSV row (column).
SharedFloats ==
    {[t |-> 1, col |-> c + 2, digits |-> 4, csv |-> c + 2] : c \in 1 .. 5}
    \cup {[t |-> 2, col |-> c + 2, digits |-> 2, csv |-> c + 7] : c \in 1 .. 4}
    \cup {[t |-> 3, col |-> c + 2, digits |-> 4, csv |-> c + 11] : c \in 1 .. 4}
    \cup {[t |-> 4, col |-> c + 1, digits |-> 2, csv |-> c + 15] : c \in 1 .. 2}
\* the tables that show the count, in their second column
CountTables == {1, 2, 3}

\* C16: when main has rendered the tables and written the CSV file, every
\* table has a row for exactly the groups the CSV file has a data row for,
\* the counts they show are equal, and every other statistic both show is
\* in the table the value of the CSV file cut to the table's decimals.
C16_TableMatchesCsv ==
    (tables # <<>> /\ csv # <<>>) =>
        /\ \A t \in 1 .. Len(tables) : FirstCells(tables[t].rows, 0) = FirstCells(csv, 1)
        /\ \A i \in 1 .. (Len(csv) - 1) :
              /\ \A t \in CountTables : tables[t].rows[i][2] = csv[i + 1][2]
              /\ \A x \in SharedFloats :
                    tables[x.t].rows[i][x.col] = Fixed(csv[i + 1][x.csv].repr, x.digits)

\* C16 witness: both outputs made for two groups, one with a decode
\* throughput that two decimals do not hold exactly
C16_Witness ==
    /\ apc = "exit_0"
    /\ Len(tables) = 4
    /\ Len(csv) = 3
    /\ \E i \in 2 .. 3 :
          RatMul(csv[i][8].repr, FromInt(100)) # FromInt(tables[2].rows[i - 1][3].scaled)

\* the cell of a data row under the header column called name
CsvCell(row, name) == row[CHOOSE c \in 1 .. Len(csv[1]) : csv[1][c] = name]
StatNames == {"mean", "min", "max", "median"}
\* the header name of a statistic of a column group: "ttft" and "mean" give
\* "ttft_mean"
ColumnName(prefix, stat) ==
    CASE prefix = "ttft" ->
            (CASE stat = "mean" -> "ttft_mean" [] stat = "min" -> "ttft_min"
               [] stat = "max" -> "ttft_max" [] stat = "median" -> "ttft_median")
      [] prefix = "throughput" ->
            (CASE stat = "mean" -> "throughput_mean" [] stat = "min" -> "throughput_min"
               [] stat = "max" -> "throughput_max" [] stat = "median" -> "throughput_median")
      [] prefix = "latency" ->
            (CASE stat = "mean" -> "latency_mean" [] stat = "min" -> "latency_min"
               [] stat = "max" -> "latency_max" [] stat = "median" -> "latency_median")

\* C17: the CSV file main wrote has one header row, the 17 column names in
\* their order, then one data row of 17 cells per group of the summary, in
\* which every cell is the statistic its column is named after.
C17_CsvLayout ==
    csv # <<>> =>
        /\ csv[1] = <<"context_length", "samples", "ttft_mean", "ttft_min", "ttft_max",
                      "ttft_median", "ttft_stdev", "throughput_mean", "throughput_min",
                      "throughput_max", "throughput_median", "latency_mean",
                      "latency_min", "latency_max", "latency_median",
                      "gpu_memory_mean", "gpu_memory_peak">>
        /\ Len(csv) = Len(analysis) + 1
        /\ \A i \in 1 .. Len(analysis) :
              LET row == csv[i + 1]
                  m == analysis[i].value
              IN  /\ Len(row) = 17
                  /\ CsvCell(row, "context_length") = Digits(analysis[i].key)
                  /\ CsvCell(row, "samples") = Digits(m.count)
                  /\ CsvCell(row, "ttft_stdev") = Repr(m.ttft.stdev)
                  /\ \A st \in StatNames :
                        /\ CsvCell(row, ColumnName("ttft", st)) = Repr(m.ttft[st])
                        /\ CsvCell(row, ColumnName("throughput", st))
                              = Repr(m.decode_throughput[st])
                        /\ CsvCell(row, ColumnName("latency", st))
                              = Repr(m.total_latency[st])
                  /\ CsvCell(row, "gpu_memory_mean") = Repr(m.gpu_memory.mean)
                  /\ CsvCell(row, "gpu_memory_peak") = Repr(m.gpu_memory.max)

\* C17 witness: main has ended after writing a CSV file of two groups, one
\* of them of two records that differ
C17_Witness ==
    /\ apc = "exit_0"
    /\ Len(csv) = 3
    /\ \E i \in 2 .. 3 :
          /\ csv[i][2] = Digits(2)
          /\ csv[i][13] # csv[i][14]

HasColumn(t, name) == \E c \in 1 .. Len(tables[t].header) : tables[t].header[c] = name
\* the cell of row i of table t under the column head called name
TableCell(t, i, name) ==
    tables[t].rows[i][CHOOSE c \in 1 .. Len(tables[t].header) : tables[t].header[c] = name]
\* each table has one row per group of the summary, in its order, with one
\* cell per column head, the first being the group's context length
OneRowPerGroup ==
    /\ Len(tables) = 4
    /\ \A t \in 1 .. 4 :
          /\ Len(tables[t].rows) = Len(analysis)
          /\ \A i \in 1 .. Len(analysis) :
                /\ Len(tables[t].rows[i]) = Len(tables[t].header)
                /\ TableCell(t, i, "Context (tokens)") = Digits(analysis[i].key)
\* row i of table t shows the count of its group
ShowsCount(t, i) ==
    /\ HasColumn(t, "Samples")
    /\ TableCell(t, i, "Samples") = Digits(analysis[i].value.count)
\* row i of table t shows the mean, min, max and median of metric k to d
\* decimals under the column heads Mean, Min, Max, Median followed by unit
ShowsStatistics(t, i, k, d, unit) ==
    LET m == analysis[i].value[k]
        head(stat) ==
            IF unit = "s"
            THEN (CASE stat = "mean" -> "Mean (s)" [] stat = "min" -> "Min (s)"
                    [] stat = "max" -> "Max (s)" [] stat = "median" -> "Median (s)")
            ELSE (CASE stat = "mean" -> "Mean" [] stat = "min" -> "Min"
                    [] stat = "max" -> "Max" [] stat = "median" -> "Median")
    IN  \A st \in StatNames : TableCell(t, i, head(st)) = Fixed(m[st], d)

\* C18 (as claimed): print_summary_table logs four tables, and each of the
\* four has one row per group that shows the group's count.
C18_EveryTableShowsCount ==
    tables # <<>> =>
        /\ OneRowPerGroup
        /\ \A t \in 1 .. 4 : \A i \in 1 .. Len(analysis) : ShowsCount(t, i)

\* C18 (amended): print_summary_table logs four tables (TTFT, throughput,
\* total latency, GPU memory) with one row per group each; the rows of the
\* first three show the group's count with the table's statistics, the rows
\* of the GPU memory table show the mean and the peak and no count.
C18_ThreeTablesShowCount ==
    tables # <<>> =>
        /\ OneRowPerGroup
        /\ tables[1].title = "Time to First Token (TTFT) by Context Length:"
        /\ tables[2].title = "Decode Throughput (tokens/sec) by Context Length:"
        /\ tables[3].title = "Total Latency (s) by Context Length:"
        /\ tables[4].title = "GPU Memory Usage by Context Length:"
        /\ ~HasColumn(4, "Samples")
        /\ \A i \in 1 .. Len(analysis) :
              /\ \A t \in 1 .. 3 : ShowsCount(t, i)
              /\ ShowsStatistics(1, i, "ttft", 4, "s")
              /\ TableCell(1, i, "StdDev") = Fixed(analysis[i].value.ttft.stdev, 4)
              /\ ShowsStatistics(2, i, "decode_throughput", 2, "")
              /\ ShowsStatistics(3, i, "total_latency", 4, "s")
              /\ TableCell(4, i, "Mean (GB)") = Fixed(analysis[i].value.gpu_memory.mean, 2)
              /\ TableCell(4, i, "Peak (GB)") = Fixed(analysis[i].value.gpu_memory.max, 2)

\* C18 witness: the tables rendered for two groups, one of them of two
\* records whose peak memory differs
C18_Witness ==
    /\ Len(tables) = 4
    /\ Len(analysis) = 2
    /\ \E i \in 1 .. 2 :
          /\ analysis[i].value.count = 2
          /\ analysis[i].value.gpu_memory.mean # analysis[i].value.gpu_memory.max

\* main has told of an error: through logger.error, or through the
\* traceback of the exception that ended it
ErrorReported == error_message # "none" \/ exc # "none"

\* C19: for a store without a record line (empty, or nothing but blank
\* lines, text that is no JSON and JSON that is no object) main renders no
\* table and writes no CSV file, never gets to a summary, and when it has
\* ended it has reported an error and the status is not 0.
C19_EmptyInputError ==
    RecordLines(store) = <<>> =>
        /\ tables = <<>>
        /\ csv = <<>>
        /\ analysis = <<>>
        /\ apc \in {"start", "loaded", "exit_1", "raised"}
        /\ Terminated => (ErrorReported /\ ExitStatus # 0)

\* C19 witness: main has ended on a store that is not empty and holds no
\* line that parses
C19_Witness ==
    /\ Terminated
    /\ store # <<>>
    /\ \A i \in 1 .. Len(store) : store[i].kind \in {"text", "blank"}
    /\ \E i \in 1 .. Len(store) : store[i].kind = "text"
    /\ error_message = "No valid results found in file"

\* a line that holds a record with every field
IsWellFormed(line) ==
    /\ line.kind = "object"
    /\ line.null = {}
    /\ MetricFields \cup OptionalFields \cup {"context_length"} \subseteq DOMAIN line.val
\* a line that does not parse as a record: text that is no JSON, or JSON
\* that is no object
IsMalformed(line) == line.kind \in {"text", "scalar"}
WithoutMalformed(lines) == SelectSeq(lines, LAMBDA line : ~IsMalformed(line))

\* status and summary main ends with on a store
RunOutcome(lines) ==
    LET l == load_results(lines)
        a == analyze_results(l.results)
    IN  IF l.results = <<>> \/ a.status = "raised" \/ a.analysis = <<>>
        THEN [status |-> 1, summary |-> <<>>]
        ELSE [status |-> 0, summary |-> a.analysis]

\* C20 (as claimed): on a store with at least one well-formed record main
\* ends with the status and the summary it ends with on the same store
\* without its malformed lines.
C20_MalformedLinesKeepStatus ==
    (Terminated /\ \E i \in 1 .. Len(store) : IsWellFormed(store[i])) =>
        [status |-> ExitStatus, summary |-> analysis] = RunOutcome(WithoutMalformed(store))

(* ======================= claims about the pipeline ==================== *)
\* the benchmark has run on the generated prompts and every engine call
\* has returned
PipelineDone == gpc = "done" /\ pc = "done"
\* what analyze_results gives for the records load_results finds in the store
StoreAnalysis == analyze_results(load_results(store).results)
Occurrences(q, x) == Cardinality({i \in 1 .. Len(q) : q[i] = x})
GroupKeys(summary) == {summary[g].key : g \in 1 .. Len(summary)}

\* C21 (as claimed): after the pipeline the keys of the summary are the
\* context lengths given to the generator and every group's count is
\* num_samples.
C21_CountIsNumSamples ==
    PipelineDone =>
        /\ StoreAnalysis.status = "ok"
        /\ GroupKeys(StoreAnalysis.analysis) = {context_lengths[i] : i \in DOMAIN context_lengths}
        /\ \A g \in 1 .. Len(StoreAnalysis.analysis) :
              StoreAnalysis.analysis[g].value.count = num_samples

\* C21 (amended): after the pipeline the keys of the summary are the context
\* lengths given to the generator and every group's count is num_samples
\* times the number of times its context length stands in the list.
C21_StableContextLengths ==
    PipelineDone =>
        /\ StoreAnalysis.status = "ok"
        /\ GroupKeys(StoreAnalysis.analysis) = {context_lengths[i] : i \in DOMAIN context_lengths}
        /\ \A g \in 1 .. Len(StoreAnalysis.analysis) :
              StoreAnalysis.analysis[g].value.count
                 = num_samples * Occurrences(context_lengths, StoreAnalysis.analysis[g].key)

\* C21 witness: the pipeline has run for two different context lengths, the
\* larger first
C21_Witness ==
    /\ PipelineDone
    /\ context_lengths = <<2, 1>>
    /\ Len(store) = 2

(* ======================= claims about the generator =================== *)
GeneratorDone == gpc = "done"
PromptFields == {"context_length", "sample_id", "prompt", "query"}

\* C24: generate_prompts writes len(context_lengths) * num_samples prompts;
\* the prompts of the i-th context length of the list stand together, after
\* those of the lengths before it, with sample_id 0, 1, ..., num_samples - 1
\* in that order, and every prompt has the fields context_length, sample_id,
\* prompt and query.
C24_PromptsCountAndOrder ==
    GeneratorDone =>
        /\ Len(prompts_file) = Len(context_lengths) * num_samples
        /\ \A i \in 1 .. Len(context_lengths) : \A j \in 0 .. (num_samples - 1) :
              LET line == prompts_file[(i - 1) * num_samples + j + 1]
              IN  /\ line.kind = "object"
                  /\ DOMAIN line.val = PromptFields
                  /\ line.val.context_length = context_lengths[i]
                  /\ line.val.sample_id = j

\* C24 witness: prompts written for two context lengths, the larger first,
\* and two samples each
C24_Witness ==
    /\ GeneratorDone
    /\ context_lengths = <<115, 1>>
    /\ num_samples = 2
    /\ Len(prompts_file) = 4

\* the context of a prompt made by create_rag_prompt: what stands between
\* "Context:" and "Question:"
ContextOf(prompt) == SubSeq(prompt, 2, Len(prompt) - 3)

\* C27: every context that generate_rag_context returns for a target of L
\* tokens has between 3 * L and 6 * L characters.
C27_ContextLengthApproximation ==
    GeneratorDone =>
        \A i \in 1 .. Len(prompts_file) :
            LET L == prompts_file[i].val.context_length
                chars == Chars(ContextOf(prompts_file[i].val.prompt))
            IN  3 * L <= chars /\ chars <= 6 * L

C25_MissingContextNeverAnError ==
    (Terminated /\ loaded # <<>> /\ AllDicts(loaded)
        /\ \A i \in 1 .. Len(loaded) :
              HasContext(loaded[i]) => MetricFields \subseteq DOMAIN loaded[i].val) =>
        /\ ExitStatus = 0
        /\ ~ErrorReported

RECURSIVE SumCounts(_)
\* sum(m["count"] for m in analysis.values())
SumCounts(summary) ==
    IF summary = <<>> THEN 0 ELSE summary[1].value.count + SumCounts(Tail(summary))

\* analyze_results has returned to main without raising
AnalysisReturned == JustAnalyzed /\ exc = "none"

\* min <= median <= max and min <= mean <= max
Ordered(m) ==
    /\ RatLE(m.min, m.median) /\ RatLE(m.median, m.max)
    /\ RatLE(m.min, m.mean) /\ RatLE(m.mean, m.max)

\* C29: when analyze_results returns, every record with a context_length
\* (0 included) is counted in exactly one group, the counts of the groups
\* add up to the number of those records, every group has count >= 1, and
\* in every group min <= median <= max and min <= mean <= max hold for ttft,
\* total_latency and decode_throughput.
C29_GroupsPartitionRecords ==
    AnalysisReturned =>
        /\ \A i \in 1 .. Len(loaded) :
              HasContext(loaded[i]) =>
                  \E g \in 1 .. Len(analysis) :
                      /\ analysis[g].key = loaded[i].val.context_length
                      /\ \A h \in 1 .. Len(analysis) :
                            analysis[h].key = analysis[g].key => h = g
                      /\ analysis[g].value.count
                            = Len(InGroup(loaded, loaded[i].val.context_length))
        /\ SumCounts(analysis) = Len(SelectSeq(loaded, HasContext))
        /\ \A g \in 1 .. Len(analysis) :
              /\ analysis[g].value.count >= 1
              /\ Ordered(analysis[g].value.ttft)
              /\ Ordered(analysis[g].value.total_latency)
              /\ Ordered(analysis[g].value.decode_throughput)

\* C29 witness: a summary of three groups, the one of context length 0 among
\* them
C29_Witness ==
    /\ apc = "analyzed"
    /\ Len(analysis) = 3
    /\ analysis[1].key = 0
    /\ analysis[1].value.count = 1

(* ======================= claims about the logger ====================== *)
\* the setup_logger calls made on name, in order
SetupsOf(name) == SelectSeq(setups, LAMBDA c : c.name = name)
HandlersOf(name, kind) ==
    SelectSeq(loggerDict[name].handlers, LAMBDA h : h.kind = kind)

\* C22: a logger holds only the handlers of the last setup_logger call on
\* its name: one file handler, and one console handler if and only if that
\* call had console=True; and every call on the name returned the same
\* logger.
C22_HandlersOfLastCall ==
    \A name \in LoggerNames :
        SetupsOf(name) # <<>> =>
            LET calls == SetupsOf(name)
                last == calls[Len(calls)]
            IN  /\ name \in DOMAIN loggerDict
                /\ Len(HandlersOf(name, "file")) = 1
                /\ Len(HandlersOf(name, "console")) = (IF last.console THEN 1 ELSE 0)
                /\ \A h \in 1 .. Len(loggerDict[name].handlers) :
                      loggerDict[name].handlers[h].call = last.call
                /\ \A c \in 1 .. Len(calls) :
                      calls[c].returned = loggerDict[name].id

\* C22 witness: a name set up with a console handler and then without one,
\* after a logger of another name was made
C22_Witness ==
    \E name \in LoggerNames :
        /\ Len(SetupsOf(name)) = 2
        /\ SetupsOf(name)[1].console /\ ~SetupsOf(name)[2].console
        /\ Len(loggerDict[name].handlers) = 1
        /\ loggerDict[name].id = 2

\* C23 (as claimed): a message logged through one logger is written only by
\* that logger's own handlers, for any two names, the dotted name below the
\* other included.
C23_LoggersIndependent ==
    \A e \in emitted : e.logger = e.via

(* ======================= claims about the workflow ==================== *)
Scripts == [i \in 1 .. Len(subprocesses) |-> subprocesses[i].cmd.script]
Running(i) == subprocesses[i].result = <<>>
Failed(i) == ~Running(i) /\ subprocesses[i].result[1].returncode # 0
Succeeded(i) == ~Running(i) /\ subprocesses[i].result[1].returncode = 0

\* C26: the subprocesses are the prompt generation and then the baseline
\* run, or the baseline run alone, one at a time; the baseline run is started
\* only when the generation has ended with 0, or when it was skipped by
\* --skip-prompt-generation or because the prompts file exists; after a
\* subprocess that ended with another status nothing is started and the
\* workflow exits with status 1; with --phase 2 or 3 nothing is started.
C26_PhaseOneInOrder ==
    /\ Scripts \in {<<>>, <<"scripts/generate_rag_prompts.py">>, <<"scripts/run_baseline.py">>,
                     <<"scripts/generate_rag_prompts.py", "scripts/run_baseline.py">>}
    /\ \A i \in 1 .. Len(subprocesses) :
          /\ Running(i) =>
                i = Len(subprocesses) /\ wpc \in {"generate", "baseline"}
          /\ Failed(i) => i = Len(subprocesses) /\ wpc = "exit_1" /\ WorkflowStatus = 1
          /\ Scripts[i] = "scripts/run_baseline.py" =>
                \/ i = 2 /\ Succeeded(1)
                \/ i = 1 /\ (wargs.skip_prompt_generation \/ prompts_exists)
    /\ wpc = "exit_1" => subprocesses # <<>> /\ Failed(Len(subprocesses))
    /\ wargs.phase \in {"2", "3"} => subprocesses = <<>>

\* C26 witness: the generation has ended with 0, the baseline run after it
\* with another status, and the workflow has exited with status 1 in a run
\* of all phases
C26_Witness ==
    /\ wargs.phase = "all"
    /\ Len(subprocesses) = 2
    /\ Succeeded(1)
    /\ Failed(2)
    /\ WorkflowStatus = 1
    /\ \A m \in 1 .. Len(wlog) : wlog[m].text # "Phase 2 not yet implemented"

====
